---- MODULE Spec2Model ----
(* Model of src/app.py: the Streamlit trading dashboard.                     *)
(* The table `trades` of trades.db is the persistent state; every widget     *)
(* click runs a handler, which ends in st.rerun(), and the next script run   *)
(* recomputes the status of every row (lines 130-139).                       *)
EXTENDS Integers, Sequences, FiniteSets, TLC

\* ---------------------------------------------------------------- bounds
MaxPrice == 2
MaxTime == 1
\* clock ticks in one calendar day, for the timestamps the replay reads
TicksPerDay == 2

\* ---------------------------------------------------------------- values
Prices == 0..MaxPrice
\* rowids of the table
Ids == {1, 2}
Times == 0..MaxTime
\* text typed in the "Symbol (NSE)" box
SymbolInputs == {"a", "A"}
\* the <<buy, stoploss, target>> triples typed into the forms: well ordered,
\* buy = stoploss, stoploss above buy, target below buy, target below stoploss
LevelSet == {<<1, 0, 2>>, <<1, 1, 2>>, <<0, 1, 2>>, <<2, 0, 1>>, <<0, 2, 1>>}

\* SQL NULL is the empty tuple, a stored value v is <<v>>
NULL == <<>>
Some(v) == <<v>>
Val(o) == o[1]

\* a cell of the DataFrame column ltp
PyNone == [kind |-> "None", v |-> 0]
NaN == [kind |-> "NaN", v |-> 0]
NegInf == [kind |-> "-inf", v |-> 0]
Num(x) == [kind |-> "num", v |-> x]

\* the placements of equal keys a sort routine can have
TieOrders == {"asc", "desc"}

\* the script runs (sessions) that overlap
Sessions == {1, 2}
\* a session whose script run has not loaded the table yet
NotStarted == [pc |-> "start", df |-> <<>>, todo |-> {}, cur |-> 0]

Terminal == {"Target Hit", "Stoploss Hit"}
Statuses == {"Pending", "Active"} \cup Terminal

\* trades: the table; clock: the last value read from datetime.now();
\* pc: "rerun" between st.rerun() and the end of the status pass of the next
\* script run; edit: st.session_state.edit
VARIABLES trades, clock, pc, edit
\* the analytics block of one script run: rpc is its position, order the
\* frame closed.sort_values("closed"), capital and records its locals
VARIABLES rpc, order, capital, records
\* ties: where the sort of line 204 puts rows with equal keys; it is a
\* property of the installed sort routine and never changes
VARIABLES ties
\* the locals of lines 220-233: equity is the column perf.Equity, drawdown
\* the series of line 226, max_dd and summary the values of the metrics
VARIABLES equity, drawdown, max_dd, summary
\* prev: what the analytics block of the previous script run displayed
VARIABLES prev
\* two browser sessions running the status pass on the one table: sess is
\* the position, the frame df and the rows left of each session's pass;
\* writers records, for every rowid, the sessions whose pass called
\* close_trade on it
VARIABLES sess, writers
lvars == <<trades, clock, pc, edit, ties>>
cvars == <<sess, writers>>
avars == <<equity, drawdown, max_dd, summary>>
rvars == <<rpc, order, capital, records, equity, drawdown, max_dd, summary, prev>>
vars == <<trades, clock, pc, edit, ties, rpc, order, capital, records,
          equity, drawdown, max_dd, summary, prev, sess, writers>>

START_CAPITAL == 100000
\* RISK_PER_TRADE = 0.01 = 1 / RiskDenominator
RiskDenominator == 100

\* ------------------------------------------------------------ conversions
\* str.upper() of the symbol box
upper(s) == IF s = "a" THEN "A" ELSE s

\* ------------------------------------------------------------------ load
\* pd.read_sql: a REAL column that holds only NULLs is read as an object
\* column of None, a column with at least one number is read as float64 and
\* its NULLs become NaN.
load(db) ==
  LET allnull == \A j \in DOMAIN db : db[j].ltp = NULL
  IN [i \in DOMAIN db |->
        [db[i] EXCEPT !.ltp = IF db[i].ltp = NULL
                               THEN (IF allnull THEN PyNone ELSE NaN)
                               ELSE Num(Val(db[i].ltp))]]

\* float comparisons of a DataFrame cell with a number; every comparison
\* with NaN is False
Lt(x, y) == x.kind = "num" /\ x.v < y
Ge(x, y) == x.kind = "num" /\ x.v >= y
Le(x, y) == x.kind = "num" /\ x.v <= y

\* ----------------------------------------------------------------- logic
\* trade_status without the entry test of line 84
trade_status_noentry(r) ==
  IF r.ltp = PyNone THEN "Pending"
  ELSE IF Ge(r.ltp, r.target) THEN "Target Hit"
  ELSE IF Le(r.ltp, r.sl) THEN "Stoploss Hit"
  ELSE "Active"

trade_status(r) ==
  IF r.ltp = PyNone \/ Lt(r.ltp, r.buy) THEN "Pending"
  ELSE IF Ge(r.ltp, r.target) THEN "Target Hit"
  ELSE IF Le(r.ltp, r.sl) THEN "Stoploss Hit"
  ELSE "Active"

\* ------------------------------------------------------------------ CRUD
\* INTEGER PRIMARY KEY without AUTOINCREMENT: the new rowid is max(rowid)+1
NextId(db) == IF DOMAIN db = {} THEN 1
              ELSE (CHOOSE m \in DOMAIN db : \A j \in DOMAIN db : j <= m) + 1

add_trade(db, s, b, sl, t, now) ==
  [i \in DOMAIN db \cup {NextId(db)} |->
     IF i \in DOMAIN db THEN db[i]
     ELSE [id |-> i, symbol |-> s, buy |-> b, sl |-> sl, target |-> t,
           status |-> "Pending", ltp |-> NULL, created |-> Some(now),
           closed |-> NULL]]

update_price(db, i, p) ==
  [j \in DOMAIN db |-> IF j = i THEN [db[j] EXCEPT !.ltp = p] ELSE db[j]]

update_status(db, i, s) ==
  [j \in DOMAIN db |-> IF j = i THEN [db[j] EXCEPT !.status = s] ELSE db[j]]

close_trade(db, i, now) ==
  [j \in DOMAIN db |-> IF j = i THEN [db[j] EXCEPT !.closed = Some(now)] ELSE db[j]]

delete_trade(db, i) == [j \in DOMAIN db \ {i} |-> db[j]]

\* edit_trade that also puts the trade back to Pending
edit_trade_reopen(db, i, b, sl, t) ==
  [j \in DOMAIN db |-> IF j = i THEN [db[j] EXCEPT !.buy = b, !.sl = sl, !.target = t,
                                                  !.status = "Pending"]
                       ELSE db[j]]

edit_trade(db, i, b, sl, t) ==
  [j \in DOMAIN db |->
     IF j = i THEN [db[j] EXCEPT !.buy = b, !.sl = sl, !.target = t] ELSE db[j]]

\* ----------------------------------------------------------- price fetch
\* fetch_price returns the last daily close, or None when the lookup raises.
\* st.cache_data memoises per server process; a restart or a cache clear
\* between two calls lets every call see a fresh lookup, so the result is
\* drawn afresh.  A NaN close is stored by sqlite3 as NULL, like None.
FetchResults == {NULL} \cup {Some(p) : p \in Prices}

\* --------------------------------------------------------- status update
\* one iteration of the loop of lines 134-139 on row r of the frame loaded
\* at line 130; now is the value of datetime.now() read by close_trade
StatusRow(db, r, now) ==
  LET s == trade_status(r)
  IN IF s # r.status
     THEN LET db1 == update_status(db, r.id, s)
          IN IF s \in Terminal THEN close_trade(db1, r.id, now) ELSE db1
     ELSE db

\* rows of df whose iteration calls close_trade
Closing(df) == {i \in DOMAIN df : trade_status(df[i]) # df[i].status
                                   /\ trade_status(df[i]) \in Terminal}

RECURSIVE StatusLoop(_, _, _, _)
StatusLoop(db, df, todo, ts) ==
  IF todo = {} THEN db
  ELSE LET i == CHOOSE m \in todo : \A j \in todo : m <= j
       IN StatusLoop(StatusRow(db, df[i], IF i \in DOMAIN ts THEN ts[i] ELSE 0),
                     df, todo \ {i}, ts)

\* the clock readings of one pass: non-decreasing in iteration order
Stamps(df) == {ts \in [Closing(df) -> clock..MaxTime] :
                 \A i, j \in Closing(df) : i <= j => ts[i] <= ts[j]}

LastRead(ts) == IF DOMAIN ts = {} THEN clock
                ELSE CHOOSE m \in {ts[i] : i \in DOMAIN ts} :
                       \A i \in DOMAIN ts : ts[i] <= m

\* ------------------------------------------------------------------ Init
\* the empty table of the CREATE TABLE of lines 23-36; no handler sorts, and
\* a frame of two rows is sorted by insertion, which keeps tied rows in order
Init ==
  /\ trades = <<>>
  /\ clock = 0
  /\ pc = "idle"
  /\ edit = NULL
  /\ ties = "asc"
  /\ rpc = "off"
  /\ order = <<>>
  /\ capital = 0
  /\ records = <<>>
  /\ equity = <<>>
  /\ drawdown = <<>>
  /\ max_dd = NaN
  /\ summary = NULL
  /\ prev = NULL
  /\ sess = [s \in Sessions |-> NotStarted]
  /\ writers = [i \in Ids |-> {}]

\* --------------------------------------------------------------- actions
\* "Add Trade" button, lines 120-122
AddTrade ==
  /\ pc = "idle"
  /\ NextId(trades) \in Ids
  /\ \E s \in SymbolInputs, l \in LevelSet, now \in clock..MaxTime :
       /\ trades' = add_trade(trades, upper(s), l[1], l[2], l[3], now)
       /\ clock' = now
  /\ pc' = "rerun"
  /\ UNCHANGED <<edit, ties>>
  /\ UNCHANGED <<rvars, cvars>>

RECURSIVE RefreshLoop(_, _, _)
RefreshLoop(db, todo, px) ==
  IF todo = {} THEN db
  ELSE LET i == CHOOSE m \in todo : \A j \in todo : m <= j
       IN RefreshLoop(update_price(db, i, px[i]), todo \ {i}, px)

\* "Refresh Prices" button, lines 124-128
RefreshPrices ==
  /\ pc = "idle"
  /\ \E px \in [DOMAIN trades -> FetchResults] :
       trades' = RefreshLoop(trades, DOMAIN trades, px)
  /\ pc' = "rerun"
  /\ UNCHANGED <<clock, edit, ties>>
  /\ UNCHANGED <<rvars, cvars>>

\* "Refresh" button of one card, lines 169-171
RefreshOne(i) ==
  /\ pc = "idle"
  /\ i \in DOMAIN trades
  /\ \E p \in FetchResults : trades' = update_price(trades, i, p)
  /\ pc' = "rerun"
  /\ UNCHANGED <<clock, edit, ties>>
  /\ UNCHANGED <<rvars, cvars>>

\* "Delete" button of one card, lines 166-168
DeleteTrade(i) ==
  /\ pc = "idle"
  /\ i \in DOMAIN trades
  /\ trades' = delete_trade(trades, i)
  /\ pc' = "rerun"
  /\ UNCHANGED <<clock, edit, ties>>
  /\ UNCHANGED <<rvars, cvars>>

\* "Edit" button of one card, lines 164-165; the script run goes on
ClickEdit(i) ==
  /\ pc = "idle"
  /\ i \in DOMAIN trades
  /\ edit' = Some(i)
  /\ UNCHANGED <<trades, clock, pc, ties>>
  /\ UNCHANGED <<rvars, cvars>>

\* "Save Changes" button, lines 178-187
SaveChanges ==
  /\ pc = "idle"
  /\ edit # NULL
  /\ Val(edit) \in DOMAIN trades
  /\ \E l \in LevelSet :
       trades' = edit_trade(trades, Val(edit), l[1], l[2], l[3])
  /\ edit' = NULL
  /\ pc' = "rerun"
  /\ UNCHANGED <<clock, ties>>
  /\ UNCHANGED <<rvars, cvars>>

\* the script run started by st.rerun(): lines 130-141
StatusPass ==
  /\ pc = "rerun"
  /\ LET df == load(trades)
     IN \E ts \in Stamps(df) :
          /\ trades' = StatusLoop(trades, df, DOMAIN df, ts)
          /\ clock' = LastRead(ts)
  /\ pc' = "idle"
  /\ UNCHANGED <<edit, ties>>
  /\ UNCHANGED <<rvars, cvars>>

Next ==
  \/ AddTrade
  \/ RefreshPrices
  \/ \E i \in Ids : RefreshOne(i)
  \/ \E i \in Ids : DeleteTrade(i)
  \/ \E i \in Ids : ClickEdit(i)
  \/ SaveChanges
  \/ StatusPass

Spec == Init /\ [][Next]_vars

\* ============================================================ analytics
Abs(x) == IF x < 0 THEN -x ELSE x

\* int(a / b) for b > 0: Python's int() truncates toward zero
TruncDiv(a, b) == IF a >= 0 THEN a \div b ELSE -((-a) \div b)

\* round(n / d, 2) in hundredths, d # 0: nearest, ties to even
Round2(n, d) ==
  LET num == IF d < 0 THEN -(100 * n) ELSE 100 * n
      den == Abs(d)
      fl == num \div den
      rem == num % den
  IN IF 2 * rem < den THEN fl
     ELSE IF 2 * rem > den THEN fl + 1
     ELSE IF fl % 2 = 0 THEN fl ELSE fl + 1

\* position_size sized from the starting capital instead of the current one
position_size_start(cap, buy, sl) ==
  LET per_share == Abs(buy - sl)
  IN IF per_share # 0 THEN TruncDiv(START_CAPITAL, RiskDenominator * per_share) ELSE 0

position_size(cap, buy, sl) ==
  LET per_share == Abs(buy - sl)
  IN IF per_share # 0 THEN TruncDiv(cap, RiskDenominator * per_share) ELSE 0

\* the R multiple in hundredths; entry = sl raises ZeroDivisionError
r_multiple(entry, exit, sl) ==
  IF entry - sl = 0 THEN [ok |-> FALSE, v |-> 0]
  ELSE [ok |-> TRUE, v |-> Round2(exit - entry, entry - sl)]

\* line 193: the rows with a terminal status
ClosedRows(db) == {db[i] : i \in {j \in DOMAIN db : db[j].status \in Terminal}}

\* line 204: sort_values("closed") with the default sort kind "quicksort",
\* which is not stable: ascending by closed, and rows with equal closed in
\* the order the routine happens to leave them in.  numpy's quicksort keeps
\* equal keys in frame order only while a partition has at most 17 elements
\* and swaps them in larger ones; the two placements of a pair of tied rows
\* stand for what it does to tied rows of a longer frame.  The routine is
\* deterministic: the same frame always comes out in the same order.
SortedByClosed(rows) ==
  {q \in [1..Cardinality(rows) -> rows] :
     /\ \A a, b \in 1..Cardinality(rows) : a # b => q[a] # q[b]
     /\ \A a, b \in 1..Cardinality(rows) :
          a < b => \/ Val(q[a].closed) < Val(q[b].closed)
                   \/ /\ Val(q[a].closed) = Val(q[b].closed)
                      /\ IF ties = "asc" THEN q[a].id < q[b].id
                                         ELSE q[a].id > q[b].id}

exit_price(r) == IF r.status = "Target Hit" THEN r.target ELSE r.sl

\* whole days of a time difference: Timedelta.days
Days(t) == t \div TicksPerDay

\* line 225: perf.Equity.cummax() at position k
cummax(eq, k) == CHOOSE m \in {eq[j] : j \in 1..k} : \A j \in 1..k : eq[j] <= m

\* line 226: one cell of ((perf.Equity - peak) / peak) * 100, kept as the
\* fraction n / d; float division by a zero peak gives NaN for 0 / 0 and
\* -inf for a negative numerator
DrawdownCell(e, p) ==
  IF p = 0 THEN IF e = 0 THEN [kind |-> "NaN", n |-> 0, d |-> 1]
                ELSE [kind |-> "-inf", n |-> 0, d |-> 1]
  ELSE [kind |-> "num", n |-> (e - p) * 100, d |-> p]

DrawdownSeries(eq) == [k \in 1..Len(eq) |-> DrawdownCell(eq[k], cummax(eq, k))]

\* a / b <= c / d for b, d > 0, by the quotients and then the remainders
RECURSIVE FracLe(_, _, _, _)
FracLe(a, b, c, d) ==
  IF a \div b # c \div d THEN a \div b < c \div d
  ELSE IF a % b = 0 THEN TRUE
  ELSE IF c % d = 0 THEN FALSE
  ELSE FracLe(d, c % d, b, a % b)

\* x <= y for two cells of kind "num"
CellLe(x, y) ==
  FracLe(IF x.d < 0 THEN -x.n ELSE x.n, Abs(x.d),
         IF y.d < 0 THEN -y.n ELSE y.n, Abs(y.d))

\* line 227: round(drawdown.min(), 2) in hundredths; min() skips NaN and is
\* NaN when nothing is left
RoundedMin(dd) ==
  LET nn == {k \in DOMAIN dd : dd[k].kind # "NaN"}
  IN IF nn = {} THEN NaN
     ELSE IF \E k \in nn : dd[k].kind = "-inf" THEN NegInf
     ELSE LET m == CHOOSE k \in nn : \A j \in nn : CellLe(dd[k], dd[j])
          IN Num(Round2(dd[m].n, dd[m].d))

DaysPerYear == 365

\* line 233 without the guard: 1 / years divides by zero when years is 0
cagr_noguard(cap, days) ==
  IF days = 0 THEN [kind |-> "ZeroDivisionError", cap |-> 0, days |-> 0]
  ELSE IF cap < 0 /\ DaysPerYear % Abs(days) # 0
       THEN [kind |-> "TypeError", cap |-> 0, days |-> 0]
       ELSE [kind |-> "pow", cap |-> cap, days |-> days]

\* lines 232-233 for years = days / 365: the guarded 0, or the power
\* (capital / START_CAPITAL) ** (365 / days), kept unevaluated by its
\* operands.  A negative base with a fractional exponent is a complex
\* number, which round() rejects with TypeError.
cagr(cap, days) ==
  IF days > 0
  THEN IF cap < 0 /\ DaysPerYear % days # 0
       THEN [kind |-> "TypeError", cap |-> 0, days |-> 0]
       ELSE [kind |-> "pow", cap |-> cap, days |-> days]
  ELSE [kind |-> "zero", cap |-> 0, days |-> 0]

\* line 232: (closed.closed.max() - closed.created.min()).days
SpanDays(rows) ==
  LET last == CHOOSE t \in {Val(r.closed) : r \in rows} :
                \A r \in rows : Val(r.closed) <= t
      first == CHOOSE t \in {Val(r.created) : r \in rows} :
                 \A r \in rows : t <= Val(r.created)
  IN Days(last - first)

\* the analytics block started with the capital the last run ended with
AnalyticsStart_carry ==
  /\ rpc = "off"
  /\ pc = "idle"
  /\ IF ClosedRows(trades) = {}
     THEN /\ rpc' = "stopped"
          /\ UNCHANGED <<order, capital, records>>
     ELSE /\ \E q \in SortedByClosed(ClosedRows(trades)) : order' = q
          /\ capital' = IF prev = NULL THEN START_CAPITAL ELSE capital
          /\ records' = <<>>
          /\ rpc' = "loop"
  /\ UNCHANGED <<avars, prev, lvars, cvars>>

\* the analytics block without the guard of lines 194-196
AnalyticsStart_noguard ==
  /\ rpc = "off"
  /\ pc = "idle"
  /\ \E q \in SortedByClosed(ClosedRows(trades)) : order' = q
  /\ capital' = START_CAPITAL
  /\ records' = <<>>
  /\ rpc' = "loop"
  /\ UNCHANGED <<avars, prev, lvars, cvars>>

\* lines 191-201
AnalyticsStart ==
  /\ rpc = "off"
  /\ pc = "idle"
  /\ IF ClosedRows(trades) = {}
     THEN /\ rpc' = "stopped"
          /\ UNCHANGED <<order, capital, records>>
     ELSE /\ \E q \in SortedByClosed(ClosedRows(trades)) : order' = q
          /\ capital' = START_CAPITAL
          /\ records' = <<>>
          /\ rpc' = "loop"
  /\ UNCHANGED <<avars, prev, lvars, cvars>>

\* one iteration of the loop of lines 204-218
ReplayStep ==
  /\ rpc = "loop"
  /\ Len(records) < Len(order)
  /\ LET r == order[Len(records) + 1]
         qty == position_size(capital, r.buy, r.sl)
         pnl == (exit_price(r) - r.buy) * qty
         R == r_multiple(r.buy, exit_price(r), r.sl)
     IN /\ capital' = capital + pnl
        /\ IF R.ok
           THEN /\ records' = Append(records,
                      [Symbol |-> r.symbol, Qty |-> qty, Exit |-> exit_price(r),
                       PnL |-> pnl, Equity |-> capital + pnl, R |-> R.v,
                       Days |-> Days(Val(r.closed) - Val(r.created))])
                /\ rpc' = "loop"
           ELSE /\ rpc' = "error"
                /\ UNCHANGED records
  /\ UNCHANGED <<order, avars, prev, lvars, cvars>>

\* the loop is exhausted: lines 220-223, the frame perf and its column Equity
PerfFrame ==
  /\ rpc = "loop"
  /\ Len(records) = Len(order)
  /\ equity' = [k \in 1..Len(records) |-> records[k].Equity]
  /\ rpc' = "perf"
  /\ UNCHANGED <<order, capital, records, drawdown, max_dd, summary, prev, lvars, cvars>>

\* lines 225-227
Drawdown ==
  /\ rpc = "perf"
  /\ drawdown' = DrawdownSeries(equity)
  /\ max_dd' = RoundedMin(DrawdownSeries(equity))
  /\ rpc' = "dd"
  /\ UNCHANGED <<order, capital, records, equity, summary, prev, lvars, cvars>>

\* lines 229-257: the CAGR and the metrics; the metrics of lines 243-246 and
\* the tables of lines 250-257 display columns of records
AnalyticsEnd ==
  /\ rpc = "dd"
  /\ LET c == cagr(capital, SpanDays({order[k] : k \in 1..Len(order)}))
     IN IF c.kind = "TypeError"
        THEN /\ rpc' = "error"
             /\ UNCHANGED summary
        ELSE /\ summary' = Some([final |-> capital,
                                 total_return |-> Round2((capital - START_CAPITAL) * 100,
                                                         START_CAPITAL),
                                 max_dd |-> max_dd,
                                 cagr |-> c])
             /\ rpc' = "done"
  /\ UNCHANGED <<order, capital, records, equity, drawdown, max_dd, prev, lvars, cvars>>

\* what one run of the analytics block displayed
Result ==
  [rpc |-> rpc, records |-> records, capital |-> capital, equity |-> equity,
   drawdown |-> drawdown, max_dd |-> max_dd, summary |-> summary]

\* the next script run
AnalyticsRerun ==
  /\ rpc \in {"done", "stopped", "error"}
  /\ rpc' = "off"
  /\ prev' = Some(Result)
  /\ UNCHANGED <<order, capital, records, avars, lvars, cvars>>

\* the tables the replay is run on: up to two trades added with levels of
\* ReplayLevels, priced by one refresh and closed by status passes at the
\* instant of creation, later the same day, one day and two days later
ReplayLevels == {<<100, 90, 120>>, <<100, 100, 120>>, <<101, 100, 0>>,
                 <<101, 90, 120>>, <<90, 100, 120>>}
ReplayFetch == {NULL, Some(95), Some(100), Some(101), Some(120)}
ReplayTimes == {0, 1, TicksPerDay, 2 * TicksPerDay}

RECURSIVE AddAll(_, _, _)
AddAll(db, ls, n) ==
  IF n > Len(ls) THEN db
  ELSE AddAll(add_trade(db, "A", ls[n][1], ls[n][2], ls[n][3], 0), ls, n + 1)

ReplayTables ==
  UNION {
    {LET db0 == RefreshLoop(AddAll(<<>>, ls, 1), 1..n, px)
         df == load(db0)
     IN StatusLoop(db0, df, DOMAIN df, [i \in Closing(df) |-> ts[i]]) :
       ls \in [1..n -> ReplayLevels], px \in [1..n -> ReplayFetch],
       ts \in [1..n -> ReplayTimes]} : n \in 0..Cardinality(Ids)}

InitReplay ==
  /\ trades \in ReplayTables
  /\ clock = MaxTime
  /\ pc = "idle"
  /\ edit = NULL
  /\ ties \in TieOrders
  /\ rpc = "off"
  /\ order = <<>>
  /\ capital = 0
  /\ records = <<>>
  /\ equity = <<>>
  /\ drawdown = <<>>
  /\ max_dd = NaN
  /\ summary = NULL
  /\ prev = NULL
  /\ sess = [s \in Sessions |-> NotStarted]
  /\ writers = [i \in Ids |-> {}]

NextReplay ==
  \/ AnalyticsStart
  \/ ReplayStep
  \/ PerfFrame
  \/ Drawdown
  \/ AnalyticsEnd
  \/ AnalyticsRerun

SpecReplay == InitReplay /\ [][NextReplay]_vars

\* ===================================================== overlapping passes
\* Each session runs the script in a thread of its own; update_status and
\* close_trade each open a connection and commit (lines 65-71), so the
\* statements of two passes interleave between commits.

\* the tables two overlapping script runs start from: up to two trades just
\* added and priced by a refresh
ConcTables ==
  UNION {
    {RefreshLoop(AddAll(<<>>, ls, 1), 1..n, px) :
       ls \in [1..n -> LevelSet], px \in [1..n -> FetchResults]} :
    n \in 1..Cardinality(Ids)}

InitConc ==
  /\ trades \in ConcTables
  /\ clock = 0
  /\ pc = "rerun"
  /\ edit = NULL
  /\ ties = "asc"
  /\ rpc = "off"
  /\ order = <<>>
  /\ capital = 0
  /\ records = <<>>
  /\ equity = <<>>
  /\ drawdown = <<>>
  /\ max_dd = NaN
  /\ summary = NULL
  /\ prev = NULL
  /\ sess = [s \in Sessions |-> NotStarted]
  /\ writers = [i \in Ids |-> {}]

\* line 130 in session s: df = load()
PassLoad(s) ==
  /\ sess[s].pc = "start"
  /\ sess' = [sess EXCEPT ![s] = [pc |-> "iter", df |-> load(trades),
                                  todo |-> DOMAIN trades, cur |-> 0]]
  /\ UNCHANGED <<lvars, rvars, writers>>

\* lines 134-137 in session s: the next row of df, its status and, when it
\* differs from the loaded one, the committed update_status
PassRow(s) ==
  /\ sess[s].pc = "iter"
  /\ sess[s].todo # {}
  /\ LET i == CHOOSE m \in sess[s].todo : \A j \in sess[s].todo : m <= j
         r == sess[s].df[i]
         st == trade_status(r)
     IN IF st # r.status
        THEN /\ trades' = update_status(trades, i, st)
             /\ sess' = [sess EXCEPT ![s] =
                           IF st \in Terminal
                           THEN [@ EXCEPT !.pc = "close", !.cur = i]
                           ELSE [@ EXCEPT !.todo = @ \ {i}]]
        ELSE /\ sess' = [sess EXCEPT ![s].todo = @ \ {i}]
             /\ UNCHANGED trades
  /\ UNCHANGED <<clock, pc, edit, ties, rvars, writers>>

\* lines 138-139 in session s: the committed close_trade
PassClose(s) ==
  /\ sess[s].pc = "close"
  /\ \E now \in clock..MaxTime :
       /\ trades' = close_trade(trades, sess[s].cur, now)
       /\ clock' = now
  /\ writers' = [writers EXCEPT ![sess[s].cur] = @ \cup {s}]
  /\ sess' = [sess EXCEPT ![s] = [@ EXCEPT !.pc = "iter", !.todo = @ \ {sess[s].cur}]]
  /\ UNCHANGED <<pc, edit, ties, rvars>>

\* line 141 in session s: the loop is exhausted
PassEnd(s) ==
  /\ sess[s].pc = "iter"
  /\ sess[s].todo = {}
  /\ sess' = [sess EXCEPT ![s].pc = "end"]
  /\ UNCHANGED <<lvars, rvars, writers>>

NextConc ==
  \/ \E s \in Sessions : PassLoad(s)
  \/ \E s \in Sessions : PassRow(s)
  \/ \E s \in Sessions : PassClose(s)
  \/ \E s \in Sessions : PassEnd(s)

SpecConc == InitConc /\ [][NextConc]_vars

\* ======================================================= one status pass
\* the script run that follows a refresh of up to two trades just added,
\* with every combination of buy, stoploss and target
InitStatus ==
  /\ \E n \in 1..Cardinality(Ids) :
       \E ls \in [1..n -> Prices \X Prices \X Prices], px \in [1..n -> FetchResults] :
         trades = RefreshLoop(AddAll(<<>>, ls, 1), 1..n, px)
  /\ clock = 0
  /\ pc = "rerun"
  /\ edit = NULL
  /\ ties = "asc"
  /\ rpc = "off"
  /\ order = <<>>
  /\ capital = 0
  /\ records = <<>>
  /\ equity = <<>>
  /\ drawdown = <<>>
  /\ max_dd = NaN
  /\ summary = NULL
  /\ prev = NULL
  /\ sess = [s \in Sessions |-> NotStarted]
  /\ writers = [i \in Ids |-> {}]

NextStatus == StatusPass

SpecStatus == InitStatus /\ [][NextStatus]_vars

TypeOK ==
  /\ DOMAIN trades \subseteq Ids
  /\ \A i \in DOMAIN trades :
       /\ trades[i].id = i
       /\ trades[i].status \in Statuses
       /\ trades[i].ltp \in FetchResults \cup ReplayFetch
       /\ trades[i].closed \in {NULL} \cup {Some(t) : t \in Times \cup ReplayTimes}
  /\ clock \in Times
  /\ pc \in {"idle", "rerun"}
  /\ rpc \in {"off", "loop", "perf", "dd", "done", "stopped", "error"}
  /\ Len(records) <= Len(order)

\* at the end of a script run the pass of lines 134-139 is a no-op
PassIdempotent ==
  pc = "idle" => \A i \in DOMAIN trades : trade_status(load(trades)[i]) = trades[i].status

\* the rows of the frame that line 130 loads in the current state
Rows == {load(trades)[i] : i \in DOMAIN trades}
Present(r) == r.ltp.kind = "num"

\* ------------------------------------------------------------------ C1
\* C1: terminal states are absorbing for the status function: for every row
\* whose stored status is Target Hit or Stoploss Hit, whatever its ltp,
\* trade_status returns the stored status.
C1_TerminalAbsorbing ==
  \A r \in Rows : r.status \in Terminal => trade_status(r) = r.status

\* ------------------------------------------------------------------ C2
\* C2: monotone closing: once the closed timestamp of a trade id is set, no
\* step on that trade sets it to a different value.
C2_MonotoneClosing ==
  [][\A i \in DOMAIN trades :
       (trades[i].closed # NULL /\ i \in DOMAIN trades')
         => trades'[i].closed = trades[i].closed]_vars

\* ------------------------------------------------------------------ C3
\* C3: after a completed status pass a stored trade has a closed timestamp
\* if and only if its stored status is terminal.
C3_ClosedIffTerminal ==
  pc = "idle" =>
    \A i \in DOMAIN trades :
      (trades[i].closed # NULL) <=> (trades[i].status \in Terminal)

\* ------------------------------------------------------------------ C4
\* C4: stoploss rule: a non-terminal row with a present ltp below target and
\* at or below stoploss gets Stoploss Hit.
C4_StoplossRule ==
  \A r \in Rows :
    (r.status \notin Terminal /\ Present(r) /\ r.ltp.v < r.target /\ r.ltp.v <= r.sl)
      => trade_status(r) = "Stoploss Hit"

\* ------------------------------------------------------------------ C5
\* C5: no regression: for a row whose stored status is Active, whatever its
\* ltp, trade_status never returns Pending.
C5_NoRegression ==
  \A r \in Rows : r.status = "Active" => trade_status(r) # "Pending"

\* ------------------------------------------------------------------ C6
\* C6: target priority: a non-terminal row with a present ltp at or above
\* target gets Target Hit, whatever the relation of ltp to buy and stoploss.
C6_TargetPriority ==
  \A r \in Rows :
    (r.status \notin Terminal /\ Present(r) /\ r.ltp.v >= r.target)
      => trade_status(r) = "Target Hit"

\* ------------------------------------------------------------------ C7
\* C7: absent price: for a row whose ltp is absent trade_status returns the
\* stored status, for each of the four statuses.
C7_AbsentPrice ==
  \A r \in Rows : ~Present(r) => trade_status(r) = r.status

\* ------------------------------------------------------------------ C8
\* a refresh step in which the lookup for trade i was unavailable: only ltp
\* cells change, and each is either the looked-up value px[j] or the value
\* stored before (so the step is recognised whether or not an unavailable
\* result is written to the table)
RefreshUnavailable(i) ==
  /\ pc = "idle" /\ pc' = "rerun"
  /\ i \in DOMAIN trades
  /\ DOMAIN trades' = DOMAIN trades
  /\ \A j \in DOMAIN trades : trades'[j] = [trades[j] EXCEPT !.ltp = trades'[j].ltp]
  /\ \E px \in [DOMAIN trades -> FetchResults] :
       px[i] = NULL /\ \A j \in DOMAIN trades : trades'[j].ltp \in {px[j], trades[j].ltp}

\* C8: an unavailable price is "no new price": the refresh leaves the stored
\* ltp of the trade as it was, and the status pass that follows leaves its
\* stored status and closed timestamp as they were before the refresh.
C8_UnavailableIsNoNewPrice ==
  [][\A i \in DOMAIN trades :
       RefreshUnavailable(i) =>
         /\ trades'[i].ltp = trades[i].ltp
         /\ LET df == load(trades')
            IN \A ts \in [Closing(df) -> clock..MaxTime] :
                 LET after == StatusLoop(trades', df, DOMAIN df, ts)
                 IN /\ after[i].status = trades[i].status
                    /\ after[i].closed = trades[i].closed]_vars

\* ------------------------------------------------------------------ C9
\* capital before the k-th trade of the replay
Before(k) == IF k = 1 THEN START_CAPITAL ELSE records[k - 1].Equity
PerShare(r) == Abs(r.buy - r.sl)
\* q = floor(cap / d)
IsFloor(q, cap, d) == q * d <= cap /\ cap < (q + 1) * d
\* q = cap / d truncated toward zero
IsTrunc(q, cap, d) ==
  /\ Abs(q) * d <= Abs(cap) /\ Abs(cap) < (Abs(q) + 1) * d
  /\ q > 0 => cap > 0
  /\ q < 0 => cap < 0
\* pnl, capital after and the worked example of the k-th record
RecordArithmetic(k) ==
  LET r == order[k]
      exit == IF r.status = "Target Hit" THEN r.target ELSE r.sl
  IN /\ records[k].Exit = exit
     /\ records[k].PnL = (exit - r.buy) * records[k].Qty
     /\ records[k].Equity = Before(k) + records[k].PnL
     /\ (k = Len(records) /\ rpc # "error") => capital = records[k].Equity
     /\ (k = 1 /\ r.status = "Target Hit" /\ <<r.buy, r.sl, r.target>> = <<100, 90, 120>>)
          => /\ records[k].Qty = 100 /\ records[k].PnL = 2000
             /\ records[k].Equity = 102000 /\ records[k].R = 200

\* C9 (as stated): in the replay of closed trades in closing order every
\* quantity is floor(capital before * riskFraction / |buy - stoploss|) of the
\* compounded capital, pnl = (exit - buy) * quantity, capital after =
\* capital before + pnl; the example gives 100, 2000, 102000, R 2.0.
C9_CompoundingFloor ==
  \A k \in 1..Len(records) :
    /\ RecordArithmetic(k)
    /\ IF PerShare(order[k]) > 0
       THEN IsFloor(records[k].Qty, Before(k), RiskDenominator * PerShare(order[k]))
       ELSE records[k].Qty = 0

\* C9 (amended): the same, with the quantity being the quotient truncated
\* toward zero, which is its floor whenever the capital before is not
\* negative.
C9_CompoundingTrunc ==
  \A k \in 1..Len(records) :
    /\ RecordArithmetic(k)
    /\ IF PerShare(order[k]) > 0
       THEN /\ IsTrunc(records[k].Qty, Before(k), RiskDenominator * PerShare(order[k]))
            /\ Before(k) >= 0 =>
                 IsFloor(records[k].Qty, Before(k), RiskDenominator * PerShare(order[k]))
       ELSE records[k].Qty = 0

\* two trades replayed, the second sized from a compounded capital that
\* gives another quantity than the starting capital would
C9_Witness ==
  /\ rpc = "done"
  /\ Len(records) = 2
  /\ Before(2) # START_CAPITAL
  /\ PerShare(order[2]) > 0
  /\ ~IsTrunc(records[2].Qty, START_CAPITAL, RiskDenominator * PerShare(order[2]))

\* ------------------------------------------------------------------ C10
\* C10: zero-division guard: for a closed trade with buy = stoploss the
\* replay step records quantity 0 and pnl 0, leaves capital unchanged and
\* completes without a division error.
C10_ZeroDivisionGuard ==
  \A k \in 1..Len(order) :
    (/\ order[k].buy = order[k].sl
     /\ (Len(records) >= k \/ (rpc = "error" /\ Len(records) = k - 1)))
      => /\ Len(records) >= k
         /\ records[k].Qty = 0
         /\ records[k].PnL = 0
         /\ records[k].Equity = Before(k)

\* ------------------------------------------------------------------ C11
\* C11: the replay processes the closed trades in ascending order of closed
\* timestamp, and trades with equal closed timestamps in insertion (id)
\* order.
C11_ReplayOrder ==
  rpc \in {"loop", "perf", "dd", "done", "error"} =>
    \A a, b \in 1..Len(order) :
      a < b => \/ Val(order[a].closed) < Val(order[b].closed)
               \/ /\ Val(order[a].closed) = Val(order[b].closed)
                  /\ order[a].id < order[b].id
\* ------------------------------------------------------------------ C12
\* C12: replay determinism: a replay of the same closed trades gives the
\* same records, equity series and summary values as the replay before it;
\* nothing of one replay, such as the capital accumulator, is carried into
\* the next.
C12_ReplayDeterminism ==
  (rpc \in {"done", "stopped", "error"} /\ prev # NULL) => Result = Val(prev)

\* a second replay of two closed trades has completed with a capital that
\* is not the starting one
C12_Witness ==
  /\ rpc = "done"
  /\ prev # NULL
  /\ Val(prev).rpc = "done"
  /\ Len(records) = 2
  /\ capital # START_CAPITAL
\* ------------------------------------------------------------------ C13
\* the running peak of the equity series at position k
Peak(k) == CHOOSE m \in {equity[j] : j \in 1..k} : \A j \in 1..k : equity[j] <= m
\* the drawdown at position k is the number (equity - peak) * 100 / peak,
\* held as numerator and denominator
DrawdownAt(k) ==
  /\ Peak(k) # 0
  /\ drawdown[k].kind = "num"
  /\ drawdown[k].n = (equity[k] - Peak(k)) * 100
  /\ drawdown[k].d = Peak(k)
\* the drawdown at position k is not positive
NonPositiveAt(k) ==
  \/ drawdown[k].n = 0
  \/ drawdown[k].n < 0 /\ drawdown[k].d > 0
  \/ drawdown[k].n > 0 /\ drawdown[k].d < 0
\* max_dd is the least value of the drawdown series, rounded to 2 places
MaxIsMin ==
  /\ max_dd.kind = "num"
  /\ \E k \in DOMAIN drawdown :
       /\ max_dd.v = Round2(drawdown[k].n, drawdown[k].d)
       /\ \A j \in DOMAIN drawdown : CellLe(drawdown[k], drawdown[j])

\* C13: for every equity series produced by the replay the drawdown at
\* index i is (equity[i] - max(equity[0..i])) / max(equity[0..i]) * 100,
\* every drawdown value is <= 0 and the maximum drawdown is the minimum of
\* the series.
C13_Drawdown ==
  rpc \in {"dd", "done"} =>
    /\ Len(drawdown) = Len(equity)
    /\ \A k \in 1..Len(equity) : DrawdownAt(k) /\ NonPositiveAt(k)
    /\ MaxIsMin

\* the same for the series whose running peak stays positive
DrawdownPositivePeak ==
  (rpc \in {"dd", "done"} /\ \A k \in 1..Len(equity) : Peak(k) > 0) =>
    /\ Len(drawdown) = Len(equity)
    /\ \A k \in 1..Len(equity) : DrawdownAt(k) /\ NonPositiveAt(k)
    /\ MaxIsMin
\* ------------------------------------------------------------------ C14
\* C14: when no stored trade has status Target Hit or Stoploss Hit the
\* analytics step shows the no-data message and stops: the replay loop, the
\* drawdown and the CAGR are not executed and no error is raised.
C14_EmptyReplay ==
  (\A i \in DOMAIN trades : trades[i].status \notin Terminal) =>
    /\ rpc \in {"off", "stopped"}
    /\ records = <<>>
    /\ equity = <<>>
    /\ drawdown = <<>>
    /\ summary = NULL
    /\ prev # NULL => Val(prev).rpc = "stopped"

\* the analytics step has stopped on a table that holds trades, none closed
C14_Witness ==
  /\ rpc = "stopped"
  /\ DOMAIN trades # {}
  /\ \A i \in DOMAIN trades : trades[i].status \notin Terminal
\* ------------------------------------------------------------------ C15
\* the replay loop of the current run has processed every closed trade
LoopCompleted == rpc \in {"done", "error"} /\ Len(order) > 0 /\ Len(records) = Len(order)
\* whole days between the earliest created and the latest closed timestamp
\* of the closed trades
WholeDays == SpanDays({order[k] : k \in 1..Len(order)})

\* C15: whenever the whole-day difference between the latest closed and the
\* earliest created timestamp of the closed trades is 0 or not positive, the
\* CAGR is reported as 0 and the power with exponent 1 / years is not
\* evaluated, so that it cannot fail.
C15_CagrGuard ==
  (LoopCompleted /\ WholeDays <= 0) =>
    /\ rpc = "done"
    /\ Val(summary).cagr = [kind |-> "zero", cap |-> 0, days |-> 0]

\* a replay that changed the capital has completed on trades created and
\* closed on the same day, at different instants
C15_Witness ==
  /\ LoopCompleted
  /\ WholeDays = 0
  /\ \E k \in 1..Len(order) : Val(order[k].closed) > Val(order[k].created)
  /\ capital # START_CAPITAL
  /\ Val(summary).cagr.kind = "zero"

\* the CAGR of a replay that spans whole days is the power, or its failure
CagrEvaluated ==
  (LoopCompleted /\ WholeDays > 0) =>
    IF capital < 0 /\ DaysPerYear % WholeDays # 0 THEN rpc = "error"
    ELSE rpc = "done" /\ Val(summary).cagr = [kind |-> "pow", cap |-> capital, days |-> WholeDays]
\* ------------------------------------------------------------------ C16
\* C16: when the status passes of two sessions interleave on the same
\* trade, no stored state has a terminal status with an absent closed
\* timestamp, and the closed timestamp of a trade is written by at most one
\* of the two passes.
C16_PerTradeAtomicity ==
  \A i \in DOMAIN trades :
    /\ trades[i].status \in Terminal => trades[i].closed # NULL
    /\ Cardinality(writers[i]) <= 1
\* ------------------------------------------------------------------ C17
\* a row whose price is present and strictly between stoploss and target
InBand(r) == Present(r) /\ r.sl < r.ltp.v /\ r.ltp.v < r.target
\* what the entry rule gives for a row
Entered(r) == IF r.ltp.v >= r.buy THEN "Active" ELSE "Pending"

\* C17: entry rule: for a row whose stored status is Pending, with a present
\* ltp such that stoploss < ltp < target, trade_status returns Active when
\* ltp >= buy and Pending when ltp < buy, and that is the status the pass
\* stores.
C17_EntryRule ==
  /\ \A r \in Rows : (r.status = "Pending" /\ InBand(r)) => trade_status(r) = Entered(r)
  /\ pc = "idle" => \A r \in Rows : InBand(r) => r.status = Entered(r)

\* a pass has left one trade Active and another Pending, both with a price
\* between stoploss and target
C17_Witness ==
  /\ pc = "idle"
  /\ \E r \in Rows : InBand(r) /\ r.ltp.v >= r.buy /\ r.status = "Active"
  /\ \E r \in Rows : InBand(r) /\ r.ltp.v < r.buy /\ r.status = "Pending"
\* ------------------------------------------------------------------ C18
\* db2 has the rows of db1, and every row but row i unchanged
OnlyRow(db1, db2, i) ==
  /\ DOMAIN db2 = DOMAIN db1
  /\ \A j \in DOMAIN db1 \ {i} : db2[j] = db1[j]
\* update_price and edit_trade, which the handlers call, change at most
\* their own columns of row i
HandlerFrames(i) ==
  /\ \A p \in FetchResults :
       LET db2 == update_price(trades, i, p)
       IN /\ OnlyRow(trades, db2, i)
          /\ [db2[i] EXCEPT !.ltp = trades[i].ltp] = trades[i]
  /\ \A l \in LevelSet :
       LET db2 == edit_trade(trades, i, l[1], l[2], l[3])
       IN /\ OnlyRow(trades, db2, i)
          /\ [db2[i] EXCEPT !.buy = trades[i].buy, !.sl = trades[i].sl,
                            !.target = trades[i].target] = trades[i]
\* update_status and close_trade, which the status pass calls, change at
\* most their own column of row i
PassFrames(i) ==
  /\ \A st \in Statuses :
       LET db2 == update_status(trades, i, st)
       IN /\ OnlyRow(trades, db2, i)
          /\ [db2[i] EXCEPT !.status = trades[i].status] = trades[i]
  /\ \A t \in Times :
       LET db2 == close_trade(trades, i, t)
       IN /\ OnlyRow(trades, db2, i)
          /\ [db2[i] EXCEPT !.closed = trades[i].closed] = trades[i]

\* the row u that a step makes of the row t: id, symbol and created are
\* kept, and the step changed nothing, or only ltp, or only buy, sl and
\* target, or only status and closed
StepFrame(t, u) ==
  \/ u = t
  \/ [u EXCEPT !.ltp = t.ltp] = t
  \/ [u EXCEPT !.buy = t.buy, !.sl = t.sl, !.target = t.target] = t
  \/ [u EXCEPT !.status = t.status, !.closed = t.closed] = t

\* C18: frame of the repository operations: update_price changes only
\* ltp, update_status only status, close_trade only closed, edit_trade only
\* buy, sl and target, each of the one row it is given, in every state in
\* which the program calls it; no step of the analytics block changes the
\* table; and no step of the program changes the id, symbol or created of a
\* trade that it does not delete.
C18_Frame ==
  /\ [](\A i \in DOMAIN trades : IF pc = "idle" THEN HandlerFrames(i) ELSE PassFrames(i))
  /\ [][
     /\ rpc' # rpc => trades' = trades
     /\ \A i \in DOMAIN trades \cap DOMAIN trades' : StepFrame(trades[i], trades'[i])]_vars

\* a trade has been priced by a refresh and closed by a status pass, later
\* than it was created
C18_Witness ==
  /\ pc = "idle"
  /\ \E i \in DOMAIN trades :
       /\ trades[i].status \in Terminal
       /\ trades[i].ltp # NULL
       /\ trades[i].closed # NULL
       /\ Val(trades[i].closed) > Val(trades[i].created)

\* no step of the analytics block changes the table
AnalyticsFrame == [][trades' = trades]_vars
\* ------------------------------------------------------------------ C19
\* the row of the table as a row of a frame, from its own columns alone
Own(t) == [t EXCEPT !.ltp = IF t.ltp = NULL THEN PyNone ELSE Num(Val(t.ltp))]
\* two stored trades have the same ltp, buy, sl and target
SameInputs(t, u) ==
  t.ltp = u.ltp /\ t.buy = u.buy /\ t.sl = u.sl /\ t.target = u.target

\* C19: memoryless status: after every completed status pass the stored
\* status of each trade is trade_status of its own current ltp, buy, sl and
\* target, and two trades with equal ltp, buy, sl and target have equal
\* stored status, whatever happened to them before.
C19_Memoryless ==
  pc = "idle" =>
    /\ \A i \in DOMAIN trades : trades[i].status = trade_status(Own(trades[i]))
    /\ \A i, j \in DOMAIN trades :
         SameInputs(trades[i], trades[j]) => trades[i].status = trades[j].status

\* the same for the trades that have a price, and for two trades of one
\* table in every case
MemorylessPriced ==
  pc = "idle" =>
    /\ \A i \in DOMAIN trades :
         trades[i].ltp # NULL => trades[i].status = trade_status(Own(trades[i]))
    /\ \A i, j \in DOMAIN trades :
         SameInputs(trades[i], trades[j]) => trades[i].status = trades[j].status
====
